---- MODULE Spec2Model ----
(***************************************************************************)
(* Model of app.py: the live leaderboard cache, the backup (snapshot)     *)
(* registry with its files on disk, the data-source selection, and the    *)
(* threads that operate on them (Flask request threads and the backup     *)
(* scheduler thread).                                                      *)
(*                                                                         *)
(* Time is the wall clock in whole seconds.  A backup timestamp           *)
(* ("%Y%m%d_%H%M%S") has one-second resolution and sorts as the second it *)
(* names, so a snapshot id is modelled as the second the id was taken at. *)
(***************************************************************************)
EXTENDS Integers, Sequences, FiniteSets, TLC

(* ---------------- program constants ---------------- *)

RESULTS_PER_PAGE == 25
CACHE_EXPIRATION == 500
LOW_SCORE_THRESHOLD == 100000
\* backup_files[:20] in load_existing_backups
RETENTION == 20
\* time.sleep(60) in backup_scheduler
BACKUP_INTERVAL == 60
\* the selection value "live"; snapshot ids are seconds, all greater
LIVE == 0

(* ---------------- bounds of the model ---------------- *)

\* number of request threads of the web server
NumThreads == 2
\* wall clock when the server starts (any epoch second beyond the TTL)
StartTime == 1000
\* how many one-second clock steps a run may take
MaxUnitTicks == 1
\* how many long clock steps (CACHE_EXPIRATION seconds) a run may take
MaxJumps == 1
\* how many backup files, written or being fetched, may come on top of those
\* found at startup
MaxNewFiles == 2
\* longest leaderboard handed to the query pipeline (two full pages and one
\* entry)
MaxEntries == 51
\* the scores of a generated leaderboard are the multiples of a step, taken
\* modulo ScoreModulus
MaxScoreStep == 2
ScoreModulus == 17
\* greatest page number asked for
MaxPage == 4

Threads == 1 .. NumThreads
\* the backup scheduler thread
Sched == 0
Procs == Threads \cup {Sched}

LongStep == CACHE_EXPIRATION
MaxTime == StartTime + MaxJumps * LongStep + MaxUnitTicks
UnitTicks(t) == (t - StartTime) % LongStep

(* ---------------- the remote endpoint ---------------- *)

BoardA == << [playerAddress |-> "x:1", tribe |-> "red", highScore |-> 50] >>
BoardB == << [playerAddress |-> "x:2", tribe |-> "red", highScore |-> 200000],
             [playerAddress |-> "y3", tribe |-> "blue", highScore |-> 0] >>
Boards == {BoardA, BoardB}

\* A decoded JSON body: the expected shape, a body where a dictionary on the
\* path lacks its key (KeyError), or a body where the path breaks otherwise
\* (an empty list, a null on the way: IndexError, TypeError).
Payloads ==
    [shape : {"ok"}, board : Boards]
        \cup {[shape |-> "nokey", board |-> << >>],
              [shape |-> "badshape", board |-> << >>]}

\* What requests.get(url) followed by response.json() can give.
Responses ==
    {[kind |-> "neterr", body |-> [shape |-> "nokey", board |-> << >>]],
     [kind |-> "status", body |-> [shape |-> "nokey", board |-> << >>]],
     [kind |-> "undecodable", body |-> [shape |-> "nokey", board |-> << >>]]}
        \cup [kind : {"json"}, body : Payloads]

\* data[0]["result"]["data"]["json"]["leaderboard"]
ExtractOutcome(p) ==
    CASE p.shape = "ok" -> "ok"
      [] p.shape = "nokey" -> "KeyError"
      [] OTHER -> "Exception"

\* content of a backup file whose write stopped partway
Partial == [shape |-> "partial", board |-> << >>]

\* outcomes of open(filename, 'w') followed by json.dump(data, file)
WriteOutcomes == {"ok", "partial", "openfail"}

(* ---------------- state ---------------- *)

VARIABLES
    now,                \* time.time(), in seconds
    cached_leaderboard, \* None or a list of entries
    last_updated,
    selected_cache,
    cache_snapshots,    \* id -> [data, timestamp]
    files,              \* backup_directory: id -> content of backup_<id>.json
    pc,                 \* where each thread is
    wakeAt,             \* when the scheduler's sleep ends (0: not asleep)
    saving,             \* timestamp and leaderboard_data of each save_backup
                        \* call that has written its file
    lastRet             \* what the step just taken returned to its caller

vars == <<now, cached_leaderboard, last_updated, selected_cache,
          cache_snapshots, files, pc, wakeAt, saving, lastRet>>

\* ids offered to select_cache and delete_backup
IdInputs == {LIVE, 1, RETENTION + 1, StartTime, StartTime + 1}

(* ---------------- helpers ---------------- *)

\* Python values of the cache variable: None, or a list of entries
None == [none |-> TRUE, entries |-> << >>]
List(b) == [none |-> FALSE, entries |-> b]

\* What a step returned to its caller: the call, its arguments and how it
\* ended.  NoRet: the step was not the end of a call.
NoRet == [op |-> "none", status |-> "none", args |-> << >>, val |-> None]
Ret(op, status, args) == [op |-> op, status |-> status, args |-> args, val |-> None]
\* a return with the value handed to the caller
RetV(op, status, args, v) == [op |-> op, status |-> status, args |-> args, val |-> v]

\* locals of a thread that is not between the file write and the
\* registration of save_backup
NoSave == [id |-> 0, data |-> << >>]

\* ids of the backup files that may exist at startup
InitialIds == 1 .. (RETENTION + 1)

Put(f, k, v) == [x \in (DOMAIN f) \cup {k} |-> IF x = k THEN v ELSE f[x]]
Drop(f, k) == [x \in (DOMAIN f) \ {k} |-> f[x]]

\* the n greatest elements of S (backup_files.sort(reverse=True)[:n])
RECURSIVE Newest(_, _)
Newest(S, n) ==
    IF n = 0 \/ S = {} THEN {}
    ELSE LET m == CHOOSE x \in S : \A y \in S : y <= x
         IN {m} \cup Newest(S \ {m}, n - 1)

\* a loader without the try around each file: the first file that fails
\* ends the loop, and the files after it (the older ones) are not read
load_existing_backups_Abort(disk) ==
    LET chosen == Newest(DOMAIN disk, RETENTION)
        bad == {i \in chosen : ExtractOutcome(disk[i]) # "ok"}
        good == {i \in chosen : \A b \in bad : i > b}
    IN [i \in good |-> [data |-> disk[i].board, timestamp |-> i]]

\* load_existing_backups: the registry built from the files found on disk
load_existing_backups(disk) ==
    LET chosen == Newest(DOMAIN disk, RETENTION)
        good == {i \in chosen : ExtractOutcome(disk[i]) = "ok"}
    IN [i \in good |-> [data |-> disk[i].board, timestamp |-> i]]

\* the backup directory as found at startup: n intact files, ids 1..n
DiskOf(n) == [i \in {x \in InitialIds : x <= n} |-> [shape |-> "ok", board |-> BoardA]]
InitialFileCounts == {0, RETENTION + 1}

Init ==
    /\ now = StartTime
    /\ cached_leaderboard = None
    /\ last_updated = 0
    /\ selected_cache = LIVE
    /\ \E n \in InitialFileCounts : files = DiskOf(n)
    /\ cache_snapshots = load_existing_backups(files)
    /\ pc = [p \in Procs |-> IF p = Sched THEN "tick" ELSE "idle"]
    /\ wakeAt = 0
    /\ saving = [p \in Procs |-> NoSave]
    /\ lastRet = NoRet

(* ---------------- the clock ---------------- *)

Tick(d) ==
    /\ now + d <= MaxTime
    /\ d = 1 => UnitTicks(now) < MaxUnitTicks
    /\ now' = now + d
    /\ lastRet' = NoRet
    /\ UNCHANGED <<cached_leaderboard, last_updated, selected_cache,
                   cache_snapshots, files, pc, wakeAt, saving>>

(* ---------------- fetch_leaderboard ---------------- *)

\* a call that takes no notice of the selection
UsesSnapshot_Never == FALSE
UsesSnapshot == selected_cache # LIVE /\ selected_cache \in DOMAIN cache_snapshots
\* a staleness test that forgets the time of the last fetch
IsStale_NoBase == now > CACHE_EXPIRATION
IsStale == now - last_updated > CACHE_EXPIRATION

\* the call up to its return or up to requests.get
FetchLeaderboardStart(t) ==
    /\ pc[t] = "idle"
    /\ IF UsesSnapshot
       THEN /\ lastRet' = RetV("get_snapshot", "returned", << >>,
                                List(cache_snapshots[selected_cache].data))
            /\ pc' = pc
       ELSE IF IsStale
       THEN /\ pc' = [pc EXCEPT ![t] = "get_fetching"]
            /\ lastRet' = NoRet
       ELSE /\ lastRet' = RetV("get_cached", "returned", << >>, cached_leaderboard)
            /\ pc' = pc
    /\ UNCHANGED <<now, cached_leaderboard, last_updated, selected_cache,
                   cache_snapshots, files, wakeAt, saving>>

\* the cache after the response r has been handled
CacheAfter(r) ==
    IF r.kind = "status" THEN List(<< >>)
    ELSE IF r.kind = "json" /\ ExtractOutcome(r.body) = "ok" THEN List(r.body.board)
    ELSE IF r.kind = "json" /\ ExtractOutcome(r.body) = "KeyError" THEN List(<< >>)
    ELSE cached_leaderboard

FetchSucceeds(r) == r.kind = "json" /\ ExtractOutcome(r.body) = "ok"

\* requests.get raised, response.json() raised, or the path raised something
\* other than KeyError: nothing in fetch_leaderboard catches it
FetchRaises(r) ==
    \/ r.kind \in {"neterr", "undecodable"}
    \/ r.kind = "json" /\ ExtractOutcome(r.body) = "Exception"

\* how the call ends: with the fetched entries, with a return after a fetch
\* that failed, or with the exception
RefreshStatus(r) ==
    IF FetchRaises(r) THEN "raised"
    ELSE IF FetchSucceeds(r) THEN "ok"
    ELSE "failed"

\* a refresh that stamps the cache whatever the fetch gave
LastUpdatedAfter_Always(r) == now
LastUpdatedAfter(r) == IF FetchSucceeds(r) THEN now ELSE last_updated

\* the rest of the call, from the response to the return
FetchLeaderboardFinish(t, r) ==
    /\ pc[t] = "get_fetching"
    /\ cached_leaderboard' = CacheAfter(r)
    /\ last_updated' = LastUpdatedAfter(r)
    /\ lastRet' = RetV("get_refresh", RefreshStatus(r), << >>,
                       IF FetchRaises(r) THEN None ELSE cached_leaderboard')
    /\ pc' = [pc EXCEPT ![t] = "idle"]
    /\ UNCHANGED <<now, selected_cache, cache_snapshots, files, wakeAt, saving>>

(* ---------------- save_backup ---------------- *)

\* a thread that may enter save_backup wherever it is
Ready_Always(t) == TRUE
Ready(t) == pc[t] = IF t = Sched THEN "tick" ELSE "idle"
Rest(t) == IF t = Sched THEN "sleep" ELSE "idle"

\* save_backup up to requests.get; a request thread runs it for
\* /create_backup, the scheduler thread for its tick
SaveBackupStart(t) ==
    /\ Ready(t)
    /\ Cardinality(DOMAIN files \ InitialIds)
         + Cardinality({p \in Procs : pc[p] = "save_fetching"}) < MaxNewFiles
    /\ pc' = [pc EXCEPT ![t] = "save_fetching"]
    /\ lastRet' = NoRet
    /\ UNCHANGED <<now, cached_leaderboard, last_updated, selected_cache,
                   cache_snapshots, files, wakeAt, saving>>

\* the response reaches the file write: status 200 and a decodable body
ReachesWrite(r) == r.kind = "json"

\* backup_directory after open(filename, 'w') and json.dump(data, file)
FilesAfterSave(r, w) ==
    IF ReachesWrite(r) /\ w = "ok" THEN Put(files, now, r.body)
    ELSE IF ReachesWrite(r) /\ w = "partial" THEN Put(files, now, Partial)
    ELSE files

\* a save that goes on to the registration without regard to the file write
SaveSucceeds_IgnoreWrite(r, w) ==
    ReachesWrite(r) /\ ExtractOutcome(r.body) = "ok"

\* the call reaches the registration: the write went through and the path
\* exists
SaveSucceeds(r, w) ==
    ReachesWrite(r) /\ w = "ok" /\ ExtractOutcome(r.body) = "ok"

\* what is raised inside the try of save_backup ("none": a non-200 status,
\* which falls through to return False, or no failure at all)
SaveException(r, w) ==
    IF r.kind = "neterr" THEN "RequestException"
    ELSE IF r.kind = "status" THEN "none"
    ELSE IF r.kind = "undecodable" THEN "JSONDecodeError"
    ELSE IF w # "ok" THEN "OSError"
    ELSE IF ExtractOutcome(r.body) = "ok" THEN "none"
    ELSE ExtractOutcome(r.body)

\* a handler that catches KeyError only, as the one of fetch_leaderboard
SaveCatches_KeyErrorOnly(e) == e = "KeyError"
\* except Exception: whatever the try raised is caught
SaveCatches(e) ==
    e \in {"RequestException", "JSONDecodeError", "OSError", "KeyError", "Exception"}

\* the exception of the call leaves save_backup
SaveEscapes(r, w) == SaveException(r, w) # "none" /\ ~SaveCatches(SaveException(r, w))

\* where a thread goes when its save_backup call is over: the scheduler to
\* time.sleep(60), or to its end if the exception left the loop
AfterSave(t, escaped) ==
    IF t # Sched THEN "idle"
    ELSE IF escaped THEN "dead"
    ELSE Rest(t)

\* save_backup from the response to the file write and the extraction of
\* the leaderboard; a call that fails ends here
SaveBackupWrite(t, r, w) ==
    /\ pc[t] = "save_fetching"
    /\ files' = FilesAfterSave(r, w)
    /\ IF SaveSucceeds(r, w)
       THEN /\ saving' = [saving EXCEPT ![t] = [id |-> now, data |-> r.body.board]]
            /\ pc' = [pc EXCEPT ![t] = "save_registering"]
            /\ lastRet' = NoRet
            /\ wakeAt' = wakeAt
       ELSE /\ saving' = saving
            /\ pc' = [pc EXCEPT ![t] = AfterSave(t, SaveEscapes(r, w))]
            /\ lastRet' = Ret("save", IF SaveEscapes(r, w) THEN "raised" ELSE "False", <<t>>)
            /\ wakeAt' = IF t = Sched /\ ~SaveEscapes(r, w)
                         THEN now + BACKUP_INTERVAL ELSE wakeAt
    /\ UNCHANGED <<now, cached_leaderboard, last_updated, selected_cache,
                   cache_snapshots>>

\* cache_snapshots[timestamp] = {"data": leaderboard_data, "timestamp": timestamp}
SnapshotsAfterSave(t) ==
    Put(cache_snapshots, saving[t].id,
        [data |-> saving[t].data, timestamp |-> saving[t].id])

\* the registration and return True; the scheduler then goes to
\* time.sleep(60)
SaveBackupRegister(t) ==
    /\ pc[t] = "save_registering"
    /\ cache_snapshots' = SnapshotsAfterSave(t)
    /\ saving' = [saving EXCEPT ![t] = NoSave]
    /\ lastRet' = Ret("save", "True", <<t>>)
    /\ pc' = [pc EXCEPT ![t] = AfterSave(t, FALSE)]
    /\ wakeAt' = IF t = Sched THEN now + BACKUP_INTERVAL ELSE wakeAt
    /\ UNCHANGED <<now, cached_leaderboard, last_updated, selected_cache, files>>

\* backup_scheduler: time.sleep(60) is over, the loop calls save_backup again
SchedulerWake ==
    /\ pc[Sched] = "sleep"
    /\ now >= wakeAt
    /\ pc' = [pc EXCEPT ![Sched] = "tick"]
    /\ wakeAt' = 0
    /\ lastRet' = NoRet
    /\ UNCHANGED <<now, cached_leaderboard, last_updated, selected_cache,
                   cache_snapshots, files, saving>>

(* ---------------- delete_backup ---------------- *)

\* a report that does not look whether the file is there
DeleteStatus_Unchecked(id, rmOk) == IF rmOk THEN "deleted" ELSE "error"
DeleteStatus(id, rmOk) ==
    IF id \notin DOMAIN files THEN "file_not_found"
    ELSE IF rmOk THEN "deleted"
    ELSE "error"

delete_backup(t, id, rmOk) ==
    /\ pc[t] = "idle"
    /\ cache_snapshots' = Drop(cache_snapshots, id)
    /\ files' = IF id \in DOMAIN files /\ rmOk THEN Drop(files, id) ELSE files
    /\ lastRet' = Ret("delete", DeleteStatus(id, rmOk), <<id>>)
    /\ UNCHANGED <<now, cached_leaderboard, last_updated, selected_cache,
                   pc, wakeAt, saving>>

(* ---------------- select_cache ---------------- *)

\* a selection that takes any id
SelectionAfter_Unchecked(id) == id
SelectionAfter(id) ==
    IF id = LIVE \/ id \in DOMAIN cache_snapshots THEN id ELSE selected_cache

select_cache(t, id) ==
    /\ pc[t] = "idle"
    /\ selected_cache' = SelectionAfter(id)
    /\ lastRet' = Ret("select", "returned", <<id>>)
    /\ UNCHANGED <<now, cached_leaderboard, last_updated, cache_snapshots,
                   files, pc, wakeAt, saving>>

(* ---------------- the query pipeline ---------------- *)

\* Values of highScoreAchievedAt: a string in the format of the API
\* ("2025-03-01T15:45:10.000Z"), a string as strftime("%I:%M %p") writes it
\* ("03:45 PM"), the string "N/A", any other string, or no string at all
\* (the key is missing in the entry, or null).
IsoTime(h, m) == [fmt |-> "iso", h |-> h, m |-> m, half |-> ""]
ClockTime(h, m, half) == [fmt |-> "clock", h |-> h, m |-> m, half |-> half]
NotAvailable == [fmt |-> "N/A", h |-> 0, m |-> 0, half |-> ""]
OtherString == [fmt |-> "other", h |-> 0, m |-> 0, half |-> ""]
Missing == [fmt |-> "missing", h |-> 0, m |-> 0, half |-> ""]

\* isinstance(x, str)
IsStr(x) == x.fmt # "missing"
\* datetime.strptime(x, "%Y-%m-%dT%H:%M:%S.%fZ") raises ValueError
StrptimeRaises(x) == x.fmt # "iso"
\* .strftime("%I:%M %p") of the parsed time
Strftime(x) ==
    ClockTime(IF x.h % 12 = 0 THEN 12 ELSE x.h % 12, x.m,
              IF x.h < 12 THEN "AM" ELSE "PM")

\* df.columns of pd.DataFrame(leaderboard)
Columns(df) == UNION {DOMAIN df[i] : i \in 1 .. Len(df)}

\* df.rename(columns={'playerAddress': 'address'}), done when there is a
\* playerAddress column and no address column
RenameRow(e) ==
    [c \in (DOMAIN e \ {"playerAddress"}) \cup {"address"} |->
        IF c = "address" THEN e["playerAddress"] ELSE e[c]]
RenameAddress(df) ==
    IF "playerAddress" \in Columns(df) /\ "address" \notin Columns(df)
    THEN SubSeq([i \in 1 .. Len(df) |-> RenameRow(df[i])], 1, Len(df))
    ELSE df

\* the lambda applied to the highScoreAchievedAt column
FormatTime(x) == IF IsStr(x) THEN Strftime(x) ELSE NotAvailable
FormatRow(e) == [e EXCEPT !["highScoreAchievedAt"] = FormatTime(@)]

\* the lambda raises: some value of the column is a string strptime rejects
NormalizeRaises(df) ==
    /\ "highScoreAchievedAt" \in Columns(df)
    /\ \E i \in 1 .. Len(df) :
          /\ IsStr(df[i]["highScoreAchievedAt"])
          /\ StrptimeRaises(df[i]["highScoreAchievedAt"])

\* the address column and the time format of process_leaderboard
Normalize(df) ==
    LET r == RenameAddress(df)
    IN IF "highScoreAchievedAt" \in Columns(r)
       THEN SubSeq([i \in 1 .. Len(r) |-> FormatRow(r[i])], 1, Len(r))
       ELSE r

\* df[df["tribe"] == tribe], when a tribe is given
FilterTribe(df, tribe) ==
    IF tribe = "" THEN df ELSE SelectSeq(df, LAMBDA e : e["tribe"] = tribe)

\* row j comes before row i in the order asked for; rows of equal score
\* keep the order they had
Precedes(df, j, i, ascending) ==
    \/ IF ascending THEN df[j]["highScore"] < df[i]["highScore"]
       ELSE df[j]["highScore"] > df[i]["highScore"]
    \/ df[j]["highScore"] = df[i]["highScore"] /\ j < i

\* df.sort_values(by="highScore", ascending=ascending): pos[i] is the place
\* of row i in the sorted frame
SortValues(df, ascending) ==
    LET n == Len(df)
        pos == SubSeq([i \in 1 .. n |->
                         1 + Cardinality({j \in 1 .. n : Precedes(df, j, i, ascending)})],
                      1, n)
    IN SubSeq([p \in 1 .. n |-> df[CHOOSE i \in 1 .. n : pos[i] = p]], 1, n)

\* a slice that takes the row at end_idx as well
PageOf_Inclusive(df, page) ==
    SubSeq(df, (page - 1) * RESULTS_PER_PAGE + 1,
           IF page * RESULTS_PER_PAGE + 1 < Len(df)
           THEN page * RESULTS_PER_PAGE + 1 ELSE Len(df))
\* df_sorted.iloc[start_idx:end_idx] for page >= 1
PageOf(df, page) ==
    SubSeq(df, (page - 1) * RESULTS_PER_PAGE + 1,
           IF page * RESULTS_PER_PAGE < Len(df)
           THEN page * RESULTS_PER_PAGE ELSE Len(df))

\* process_leaderboard: (None, 0) for no entries, else the page and the
\* number of rows after the filter; "raised" when the time format raised
process_leaderboard(leaderboard, ascending, tribe, page) ==
    IF leaderboard.none \/ Len(leaderboard.entries) = 0
    THEN [status |-> "none", rows |-> << >>, total |-> 0]
    ELSE IF NormalizeRaises(RenameAddress(leaderboard.entries))
    THEN [status |-> "raised", rows |-> << >>, total |-> 0]
    ELSE LET df_sorted ==
                 SortValues(FilterTribe(Normalize(leaderboard.entries), tribe),
                            ascending)
         IN [status |-> "ok", rows |-> PageOf(df_sorted, page),
             total |-> Len(df_sorted)]

\* total_pages as the routes compute it
TotalPages(total_results) ==
    (total_results \div RESULTS_PER_PAGE)
        + (IF total_results % RESULTS_PER_PAGE > 0 THEN 1 ELSE 0)

\* what fetch_leaderboard returns when it returns without a fetch
ResolvedData ==
    IF UsesSnapshot THEN List(cache_snapshots[selected_cache].data)
    ELSE cached_leaderboard

\* tribe filters and page numbers of the requests
TribeInputs == {"", "red", "blue", "green"}
PageInputs == 1 .. MaxPage

\* the routes / and /tribe/<tribe>, for a request that fetch_leaderboard
\* answers without a fetch: process_leaderboard and total_pages
LeaderboardPage(t, ascending, tribe, page) ==
    /\ pc[t] = "idle"
    /\ UsesSnapshot \/ ~IsStale
    /\ LET res == process_leaderboard(ResolvedData, ascending, tribe, page)
       IN lastRet' = RetV("page", res.status, <<ascending, tribe, page>>,
                          [rows |-> res.rows, total |-> res.total,
                           total_pages |-> TotalPages(res.total)])
    /\ UNCHANGED <<now, cached_leaderboard, last_updated, selected_cache,
                   cache_snapshots, files, pc, wakeAt, saving>>

\* the characters of the formatted scores and their order
Digit(d) == <<"0", "1", "2", "3", "4", "5", "6", "7", "8", "9">>[d + 1]
Code(ch) ==
    CASE ch = "," -> 44
      [] ch = "0" -> 48 [] ch = "1" -> 49 [] ch = "2" -> 50 [] ch = "3" -> 51
      [] ch = "4" -> 52 [] ch = "5" -> 53 [] ch = "6" -> 54 [] ch = "7" -> 55
      [] ch = "8" -> 56 [] ch = "9" -> 57

\* a < b for two strings, as Python compares them
StrLess(a, b) ==
    \E k \in 0 .. (IF Len(a) < Len(b) THEN Len(a) ELSE Len(b)) :
        /\ \A i \in 1 .. k : a[i] = b[i]
        /\ \/ k = Len(a) /\ k < Len(b)
           \/ k < Len(a) /\ k < Len(b) /\ Code(a[k + 1]) < Code(b[k + 1])

RECURSIVE Decimal(_)
Decimal(n) ==
    IF n < 10 THEN <<Digit(n)>> ELSE Decimal(n \div 10) \o <<Digit(n % 10)>>

\* f"{n:,}": the digits in groups of three
RECURSIVE Thousands(_)
Thousands(n) ==
    IF n < 1000 THEN Decimal(n)
    ELSE Thousands(n \div 1000)
            \o <<",", Digit((n \div 100) % 10), Digit((n \div 10) % 10), Digit(n % 10)>>

\* sum / count rounded as the format .0f rounds: to the nearest integer, a
\* half to the even one
RoundMean(sum, count) ==
    LET q == sum \div count
        r == sum % count
    IN IF 2 * r < count THEN q
       ELSE IF 2 * r > count THEN q + 1
       ELSE IF q % 2 = 0 THEN q ELSE q + 1

\* the sum of the highScore column
RECURSIVE SumScores(_)
SumScores(df) ==
    IF Len(df) = 0 THEN 0
    ELSE IF Len(df) = 1 THEN df[1]["highScore"]
    ELSE SumScores(SubSeq(df, 1, Len(df) \div 2))
            + SumScores(SubSeq(df, Len(df) \div 2 + 1, Len(df)))

\* the tribe names in the order groupby lists its keys
TribeOrder == <<"blue", "green", "red">>

\* f"{x:,.0f}" of the mean score of a tribe
AverageScoreText(df, tribe) ==
    LET rows == FilterTribe(df, tribe)
    IN Thousands(RoundMean(SumScores(rows), Len(rows)))

\* a stays before b in sort_values(by="average_score", ascending=False):
\* the column holds the formatted strings
StaysBefore(a, b) == ~StrLess(a.average_score, b.average_score)

InsertTeam(s, e) ==
    LET k == Cardinality({i \in 1 .. Len(s) : StaysBefore(s[i], e)})
    IN SubSeq(s, 1, k) \o <<e>> \o SubSeq(s, k + 1, Len(s))

RECURSIVE SortTeams(_)
SortTeams(ts) ==
    IF Len(ts) = 0 THEN << >>
    ELSE InsertTeam(SortTeams(SubSeq(ts, 1, Len(ts) - 1)), ts[Len(ts)])

\* calculate_team_leaderboard over the value of the global cached_leaderboard
calculate_team_leaderboard(cache) ==
    IF cache.none \/ Len(cache.entries) = 0 THEN << >>
    ELSE LET df == cache.entries
             keys == SelectSeq(TribeOrder,
                        LAMBDA tr : \E i \in 1 .. Len(df) : df[i]["tribe"] = tr)
             team_stats ==
                 [g \in 1 .. Len(keys) |->
                    [tribe |-> keys[g],
                     average_score |-> AverageScoreText(df, keys[g])]]
         IN SortTeams(team_stats)

\* the route /teams
team_leaderboard(t) ==
    /\ pc[t] = "idle"
    /\ lastRet' = RetV("teams", "returned", << >>,
                       calculate_team_leaderboard(cached_leaderboard))
    /\ UNCHANGED <<now, cached_leaderboard, last_updated, selected_cache,
                   cache_snapshots, files, pc, wakeAt, saving>>

(* ---------------- the vote-off list ---------------- *)

\* The addresses of the model, each as the parts its text has between the
\* colons.
AddressParts ==
    {<<"x", ToString(i)>> : i \in 1 .. MaxEntries}
        \cup {<<"y2">>, <<"y3">>, <<"eip155", "1", "0xabc">>}

\* ":".join(parts)
RECURSIVE Join(_)
Join(parts) ==
    IF Len(parts) = 1 THEN parts[1]
    ELSE Join(SubSeq(parts, 1, Len(parts) - 1)) \o ":" \o parts[Len(parts)]

\* x.split(":")
Split(x) == CHOOSE parts \in AddressParts : Join(parts) = x

\* x.split(":")[-1] if ":" in str(x) else "Unknown"
PlayerId(x) ==
    IF Len(Split(x)) > 1 THEN Split(x)[Len(Split(x))] ELSE "Unknown"

\* a threshold that takes the score of 100000 as low as well
LowScore_Inclusive(e) == e["highScore"] <= LOW_SCORE_THRESHOLD
\* df["highScore"] < LOW_SCORE_THRESHOLD
LowScore(e) == e["highScore"] < LOW_SCORE_THRESHOLD

\* calculate_vote_off_list over what fetch_leaderboard returned
calculate_vote_off_list(full_data, tribe) ==
    IF full_data.none \/ Len(full_data.entries) = 0 THEN << >>
    ELSE LET df == full_data.entries
             address_col ==
                 IF "playerAddress" \in Columns(df) THEN "playerAddress" ELSE "address"
         IN IF "tribe" \notin Columns(df) \/ address_col \notin Columns(df)
            THEN << >>
            ELSE LET low == SelectSeq(SelectSeq(df, LAMBDA e : e["tribe"] = tribe),
                                      LowScore)
                     sorted == SortValues(low, TRUE)
                 IN SubSeq([i \in 1 .. Len(sorted) |->
                              <<PlayerId(sorted[i][address_col]),
                                sorted[i]["highScore"]>>],
                           1, Len(sorted))

\* the vote-off list of the route /tribe/<tribe>, for a request that
\* fetch_leaderboard answers without a fetch
VoteOffList(t, tribe) ==
    /\ pc[t] = "idle"
    /\ UsesSnapshot \/ ~IsStale
    /\ lastRet' = RetV("vote_off", "returned", <<tribe>>,
                       calculate_vote_off_list(ResolvedData, tribe))
    /\ UNCHANGED <<now, cached_leaderboard, last_updated, selected_cache,
                   cache_snapshots, files, pc, wakeAt, saving>>

(* ---------------- the system ---------------- *)

Next ==
    \/ \E d \in {1, LongStep} : Tick(d)
    \/ \E t \in Threads : FetchLeaderboardStart(t)
    \/ \E t \in Threads, r \in Responses : FetchLeaderboardFinish(t, r)
    \/ \E t \in Procs : SaveBackupStart(t)
    \/ \E t \in Procs, r \in Responses, w \in WriteOutcomes : SaveBackupWrite(t, r, w)
    \/ \E t \in Procs : SaveBackupRegister(t)
    \/ SchedulerWake
    \/ \E t \in Threads, id \in IdInputs, rmOk \in BOOLEAN : delete_backup(t, id, rmOk)
    \/ \E t \in Threads, id \in IdInputs : select_cache(t, id)
    \/ \E t \in Threads, ascending \in BOOLEAN, tribe \in TribeInputs, page \in PageInputs :
          LeaderboardPage(t, ascending, tribe, page)
    \/ \E t \in Threads : team_leaderboard(t)
    \/ \E t \in Threads, tribe \in TribeInputs \ {""} : VoteOffList(t, tribe)

Spec == Init /\ [][Next]_vars

\* The live cache on its own: fetch_leaderboard with the selection and the
\* registry it reads, and the route /teams, which reads the cache variable.  save_backup and the scheduler write neither
\* cached_leaderboard nor last_updated.
NextLive ==
    \/ \E d \in {1, LongStep} : Tick(d)
    \/ \E t \in Threads : FetchLeaderboardStart(t)
    \/ \E t \in Threads, r \in Responses : FetchLeaderboardFinish(t, r)
    \/ \E t \in Threads, id \in IdInputs, rmOk \in BOOLEAN : delete_backup(t, id, rmOk)
    \/ \E t \in Threads, id \in IdInputs : select_cache(t, id)
    \/ \E t \in Threads : team_leaderboard(t)

SpecLive == Init /\ [][NextLive]_vars

\* The snapshot store on its own: save_backup, called by request threads
\* and by the scheduler.  fetch_leaderboard and select_cache write neither
\* cache_snapshots nor files.
NextStore ==
    \/ \E d \in {1, LongStep} : Tick(d)
    \/ \E t \in Procs : SaveBackupStart(t)
    \/ \E t \in Procs, r \in Responses, w \in WriteOutcomes : SaveBackupWrite(t, r, w)
    \/ \E t \in Procs : SaveBackupRegister(t)
    \/ SchedulerWake

SpecStore == Init /\ [][NextStore]_vars

\* delete_backup requests against the ticks of the scheduler
NextDelete ==
    \/ \E d \in {1, LongStep} : Tick(d)
    \/ SaveBackupStart(Sched)
    \/ \E r \in Responses, w \in WriteOutcomes : SaveBackupWrite(Sched, r, w)
    \/ SaveBackupRegister(Sched)
    \/ SchedulerWake
    \/ \E t \in Threads, id \in IdInputs, rmOk \in BOOLEAN : delete_backup(t, id, rmOk)

SpecDelete == Init /\ [][NextDelete]_vars

\* The scheduler thread on its own.  The clock goes on, and a thread whose
\* time.sleep(60) is over is run again.
NextSched ==
    \/ \E d \in {1, LongStep} : Tick(d)
    \/ SaveBackupStart(Sched)
    \/ \E r \in Responses, w \in WriteOutcomes : SaveBackupWrite(Sched, r, w)
    \/ SaveBackupRegister(Sched)
    \/ SchedulerWake

SpecSched ==
    /\ Init
    /\ [][NextSched]_vars
    /\ WF_vars(Tick(LongStep))
    /\ WF_vars(SchedulerWake)

\* Startup on its own: load_existing_backups applied to a backup directory
\* in which up to two files are not what save_backup would have left.
BadContents ==
    {[shape |-> "nokey", board |-> << >>],
     [shape |-> "badshape", board |-> << >>],
     Partial}
StartupDisks ==
    {[i \in {x \in InitialIds : x <= n} |-> IF i \in {b1, b2} THEN c ELSE DiskOf(n)[i]] :
        n \in {0} \cup InitialIds, b1 \in InitialIds, b2 \in InitialIds, c \in BadContents}
        \cup {DiskOf(n) : n \in {0} \cup InitialIds}

InitLoad ==
    /\ now = StartTime
    /\ cached_leaderboard = None
    /\ last_updated = 0
    /\ selected_cache = LIVE
    /\ files \in StartupDisks
    /\ cache_snapshots = << >>
    /\ pc = [p \in Procs |-> IF p = Sched THEN "tick" ELSE "idle"]
    /\ wakeAt = 0
    /\ saving = [p \in Procs |-> NoSave]
    /\ lastRet = NoRet

\* the call of load_existing_backups at import
LoadExistingBackups ==
    /\ lastRet = NoRet
    /\ cache_snapshots = << >>
    /\ cache_snapshots' = load_existing_backups(files)
    /\ lastRet' = Ret("load", "returned", << >>)
    /\ UNCHANGED <<now, cached_leaderboard, last_updated, selected_cache,
                   files, pc, wakeAt, saving>>

NextLoad == LoadExistingBackups

SpecLoad == InitLoad /\ [][NextLoad]_vars

\* The query pipeline on its own: the routes applied to a live cache that
\* has just been filled with a leaderboard of the API.
GenRow(i, k) ==
    [playerAddress |-> "x:" \o ToString(i),
     tribe |-> IF i % 3 = 0 THEN "blue" ELSE "red",
     highScore |-> (i * k) % ScoreModulus,
     highScoreAchievedAt |->
         IF i % 4 = 0 THEN Missing ELSE IsoTime((5 * i) % 24, (7 * i) % 60)]
GenBoard(n, k) == [i \in 1 .. n |-> GenRow(i, k)]

\* two tribes whose mean scores are 10000 and 9000
TeamBoard ==
    << [playerAddress |-> "x:1", tribe |-> "red", highScore |-> 12000],
       [playerAddress |-> "x:2", tribe |-> "blue", highScore |-> 9000],
       [playerAddress |-> "x:3", tribe |-> "red", highScore |-> 8000] >>
\* an entry whose highScoreAchievedAt is not in the format of the API
OddTimeBoard ==
    << [playerAddress |-> "x:1", tribe |-> "red", highScore |-> 7,
        highScoreAchievedAt |-> IsoTime(15, 45)],
       [playerAddress |-> "x:2", tribe |-> "blue", highScore |-> 3,
        highScoreAchievedAt |-> OtherString] >>
\* entries that carry an address key already
AddressBoard ==
    << [address |-> "x:1", tribe |-> "red", highScore |-> 7,
        highScoreAchievedAt |-> Missing],
       [address |-> "y2", tribe |-> "blue", highScore |-> 9,
        highScoreAchievedAt |-> Missing] >>

\* scores at the threshold and around it, addresses with several colons and
\* with none
VoteBoard ==
    << [playerAddress |-> "eip155:1:0xabc", tribe |-> "red", highScore |-> 99999],
       [playerAddress |-> "y2", tribe |-> "red", highScore |-> 100000],
       [playerAddress |-> "x:1", tribe |-> "red", highScore |-> 0],
       [playerAddress |-> "x:2", tribe |-> "blue", highScore |-> 100001],
       [playerAddress |-> "y3", tribe |-> "red", highScore |-> 500],
       [playerAddress |-> "x:3", tribe |-> "red", highScore |-> 99999] >>

\* lengths around the page boundaries
BoardSizes ==
    {0, 1, RESULTS_PER_PAGE - 1, RESULTS_PER_PAGE, RESULTS_PER_PAGE + 1,
     MaxEntries}

QueryBoards ==
    {GenBoard(n, k) : n \in BoardSizes, k \in 1 .. MaxScoreStep}
        \cup {TeamBoard, OddTimeBoard, AddressBoard, VoteBoard}

InitQuery ==
    /\ now = StartTime
    /\ cached_leaderboard \in {List(b) : b \in QueryBoards}
    /\ last_updated = now
    /\ selected_cache = LIVE
    /\ files = << >>
    /\ cache_snapshots = << >>
    /\ pc = [p \in Procs |-> IF p = Sched THEN "tick" ELSE "idle"]
    /\ wakeAt = 0
    /\ saving = [p \in Procs |-> NoSave]
    /\ lastRet = NoRet

NextQuery ==
    \/ \E t \in Threads, ascending \in BOOLEAN, tribe \in TribeInputs, page \in PageInputs :
          LeaderboardPage(t, ascending, tribe, page)
    \/ \E t \in Threads : team_leaderboard(t)
    \/ \E t \in Threads, tribe \in TribeInputs \ {""} : VoteOffList(t, tribe)

\* The request handlers alone within one second of the clock: /create_backup,
\* /delete_backup, /select_cache and the calls of fetch_leaderboard.
NextReselect ==
    \/ \E t \in Threads : SaveBackupStart(t)
    \/ \E t \in Threads, r \in Responses, w \in WriteOutcomes :
          SaveBackupWrite(t, r, w)
    \/ \E t \in Threads : SaveBackupRegister(t)
    \/ \E t \in Threads, id \in IdInputs, rmOk \in BOOLEAN :
          delete_backup(t, id, rmOk)
    \/ \E t \in Threads, id \in IdInputs : select_cache(t, id)
    \/ \E t \in Threads : FetchLeaderboardStart(t)
    \/ \E t \in Threads, r \in Responses : FetchLeaderboardFinish(t, r)

SpecReselect == Init /\ [][NextReselect]_vars

SpecQuery == InitQuery /\ [][NextQuery]_vars

TypeOK ==
    /\ now \in StartTime .. MaxTime
    /\ last_updated \in {0} \cup (StartTime .. MaxTime)
    /\ selected_cache \in IdInputs
    /\ DOMAIN cache_snapshots \subseteq DOMAIN files \cup InitialIds \cup (StartTime .. MaxTime)
    /\ \A p \in Procs : saving[p] = NoSave <=> pc[p] # "save_registering"

(* ---------------- the claims ---------------- *)

\* a refresh step: the end of a fetch_leaderboard call that went to the network
RefreshEnded == lastRet'.op = "get_refresh"

\* C1: when a refresh fails (non-200 status, missing JSON path, network
\* error) after an earlier one succeeded, the cached entries after the call
\* are the entries held before it.
C1_FailedRefreshKeepsEntries ==
    [][RefreshEnded /\ lastRet'.status \in {"failed", "raised"} /\ last_updated > 0
         => cached_leaderboard' = cached_leaderboard]_vars

\* C2: fetch_leaderboard never raises to its caller, whatever the remote
\* fetch does: every call ends with a return.
C2_GetNeverRaises == lastRet.status # "raised"

\* C3: last_updated changes only in a step where the fetch returned 200 and
\* the leaderboard was extracted, and then to the current time; a refresh that
\* failed leaves it unchanged, so the cache is as stale as before.
C3_LastUpdatedOnlyOnSuccess ==
    [][/\ last_updated' # last_updated
            => RefreshEnded /\ lastRet'.status = "ok" /\ last_updated' = now
       /\ RefreshEnded /\ lastRet'.status # "ok"
            => last_updated' = last_updated /\ (IsStale => IsStale')]_vars

\* a refresh has just failed after an earlier one succeeded, the cache is
\* stale again and still carries the time of the success
C3_Witness ==
    /\ lastRet.op = "get_refresh"
    /\ lastRet.status = "failed"
    /\ last_updated > 0
    /\ IsStale

\* the live source is selected, a refresh has succeeded, and less than the
\* TTL has passed since
FreshLive ==
    /\ selected_cache = LIVE
    /\ last_updated > 0
    /\ now - last_updated < CACHE_EXPIRATION

\* C4: with the live source selected and less than 500 seconds since the last
\* successful refresh, a fetch_leaderboard call goes to no network fetch and
\* returns the cache, leaving its entries and last_updated as they were.
C4_FreshGetDoesNotFetch ==
    [][FreshLive =>
         /\ \A t \in Threads : pc[t] = "idle" => pc'[t] # "get_fetching"
         /\ lastRet'.op \in {"get_cached", "get_snapshot"} =>
               /\ lastRet'.op = "get_cached"
               /\ lastRet'.status = "returned"
               /\ cached_leaderboard' = cached_leaderboard
               /\ last_updated' = last_updated]_vars

\* a call has just been answered from the cache, some time after the refresh
C4_Witness ==
    /\ FreshLive
    /\ now > last_updated
    /\ lastRet.op = "get_cached"
    /\ cached_leaderboard \in {List(b) : b \in Boards}

\* C5: at most one refresh of the live cache is in progress at any time.
C5_SingleRefresh ==
    Cardinality({t \in Threads : pc[t] = "get_fetching"}) <= 1

\* C6: the registry never holds more than 20 snapshots.
C6_RegistryBounded == Cardinality(DOMAIN cache_snapshots) <= RETENTION

\* C7: while an id stays in the registry, the entries registered under it
\* and the file behind it do not change.
C7_SnapshotsImmutable ==
    [][\A id \in DOMAIN cache_snapshots :
         id \in DOMAIN cache_snapshots' =>
           /\ cache_snapshots'[id] = cache_snapshots[id]
           /\ id \in DOMAIN files => id \in DOMAIN files' /\ files'[id] = files[id]]_vars

\* C8: a save_backup call that returns False leaves the registry and the set
\* of backup files as they were.
C8_FailedSaveChangesNothing ==
    [][lastRet'.op = "save" /\ lastRet'.status = "False"
         => cache_snapshots' = cache_snapshots /\ DOMAIN files' = DOMAIN files]_vars

\* C9: an entry enters the registry (or is replaced in it) only in the
\* registration step of a save_backup call whose own file write was completed
\* before, under the timestamp and with the entries of that write; a call
\* whose file write stopped partway ends there, registers nothing and returns
\* False.
C9_RegisteredOnlyAfterWrite ==
    [][/\ \A id \in DOMAIN cache_snapshots' :
            (id \notin DOMAIN cache_snapshots
               \/ cache_snapshots'[id] # cache_snapshots[id])
            => \E t \in Procs :
                 /\ pc[t] = "save_registering" /\ pc'[t] # "save_registering"
                 /\ saving[t] = [id |-> id, data |-> cache_snapshots'[id].data]
                 /\ lastRet' = Ret("save", "True", <<t>>)
       /\ \A t \in Procs :
            (/\ pc[t] = "save_fetching" /\ pc'[t] # "save_fetching"
             /\ now \in DOMAIN files' /\ files'[now] = Partial)
            => /\ pc'[t] # "save_registering"
               /\ lastRet' = Ret("save", "False", <<t>>)
               /\ cache_snapshots' = cache_snapshots
       /\ \A t \in Procs :
            pc'[t] = "save_registering" /\ pc[t] # "save_registering"
            => /\ saving'[t].id = now
               /\ files'[now] = [shape |-> "ok", board |-> saving'[t].data]]_vars

\* a save has just failed in the file write: the partial file is on disk and
\* its id is not in the registry
C9_Witness ==
    /\ lastRet.op = "save"
    /\ lastRet.status = "False"
    /\ now \in DOMAIN files
    /\ files[now] = Partial
    /\ now \notin DOMAIN cache_snapshots

\* C10: select_cache(id) sets the selection to id when id is "live" or a key
\* of the registry, and otherwise leaves it as it was; it always returns.
C10_SelectKnownOnly ==
    [][lastRet'.op = "select" =>
         /\ lastRet'.status = "returned"
         /\ selected_cache' =
              IF lastRet'.args[1] = LIVE \/ lastRet'.args[1] \in DOMAIN cache_snapshots
              THEN lastRet'.args[1]
              ELSE selected_cache]_vars

\* a snapshot is selected and a select_cache with an unregistered id has
\* just been ignored
C10_Witness ==
    /\ lastRet.op = "select"
    /\ lastRet.args[1] # LIVE
    /\ lastRet.args[1] \notin DOMAIN cache_snapshots
    /\ selected_cache # LIVE
    /\ selected_cache \in DOMAIN cache_snapshots
    /\ selected_cache # lastRet.args[1]

\* a registered snapshot is the selected source
SnapshotSelected ==
    selected_cache # LIVE /\ selected_cache \in DOMAIN cache_snapshots

\* C11: while the selection is an id of the registry, a fetch_leaderboard
\* call returns the entries of that snapshot and nothing else happens: no
\* thread goes to the network, cached_leaderboard and last_updated stay as
\* they are, also when the live cache is stale.
C11_SnapshotGetIsLookup ==
    [][SnapshotSelected =>
         /\ \A t \in Threads : pc[t] = "idle" => pc'[t] # "get_fetching"
         /\ lastRet'.op \in {"get_cached", "get_snapshot"} =>
               /\ lastRet' = RetV("get_snapshot", "returned", << >>,
                                  List(cache_snapshots[selected_cache].data))
               /\ cached_leaderboard' = cached_leaderboard
               /\ last_updated' = last_updated]_vars

\* a call has just been answered from the selected snapshot while the live
\* cache, filled by an earlier refresh with other entries, is stale
C11_Witness ==
    /\ SnapshotSelected
    /\ lastRet.op = "get_snapshot"
    /\ last_updated > 0
    /\ now - last_updated > CACHE_EXPIRATION
    /\ cached_leaderboard # lastRet.val

\* C12: delete_backup with an id that is neither in the registry nor has a
\* backup file reports "Backup file not found", raises nothing, and leaves
\* the registry, the files, the selection and the live cache as they were.
C12_DeleteUnknownChangesNothing ==
    [][(/\ lastRet'.op = "delete"
        /\ lastRet'.args[1] \notin DOMAIN cache_snapshots
        /\ lastRet'.args[1] \notin DOMAIN files)
         => /\ lastRet'.status = "file_not_found"
            /\ UNCHANGED <<cache_snapshots, files, selected_cache,
                           cached_leaderboard, last_updated>>]_vars

\* an unknown id has just been reported as not found, while the registry
\* holds snapshots, one of them is selected and the live cache is filled
C12_Witness ==
    /\ lastRet.op = "delete"
    /\ lastRet.status = "file_not_found"
    /\ lastRet.args[1] \notin DOMAIN cache_snapshots \cup DOMAIN files
    /\ SnapshotSelected
    /\ cached_leaderboard \in {List(b) : b \in Boards}

\* C13: a delete_backup call whose file removal does not fail reports
\* "deleted" whenever the id was in the registry or its file existed when
\* the call started, and leaves neither behind; it reports "not found" only
\* when neither existed.
C13_DeleteReportsSuccess ==
    [][lastRet'.op = "delete" /\ lastRet'.status # "error" =>
         LET id == lastRet'.args[1]
             existed == id \in DOMAIN cache_snapshots \/ id \in DOMAIN files
         IN /\ existed => /\ lastRet'.status = "deleted"
                          /\ id \notin DOMAIN cache_snapshots'
                          /\ id \notin DOMAIN files'
            /\ lastRet'.status = "file_not_found" => ~existed]_vars

\* the scheduler's call of save_backup has just ended without a snapshot
SchedTickFailed ==
    lastRet.op = "save" /\ lastRet.args = <<Sched>> /\ lastRet.status # "True"

\* C14: a tick of the scheduler that fails leaves the thread asleep for the
\* interval, and (as long as the clock of the model can still pass the
\* interval) the thread comes back to the head of its loop for another tick.
C14_SchedulerSurvivesFailure ==
    /\ [](SchedTickFailed => pc[Sched] = "sleep" /\ wakeAt = now + BACKUP_INTERVAL)
    /\ (SchedTickFailed /\ now + LongStep <= MaxTime) ~> (pc[Sched] = "tick")

\* a tick failed in its file write at the start time (its partial file is
\* there), and the scheduler is in a later tick
C14_Witness ==
    /\ StartTime \in DOMAIN files
    /\ files[StartTime] = Partial
    /\ pc[Sched] = "save_fetching"
    /\ now > StartTime + BACKUP_INTERVAL

\* C15: the ticks of the scheduler follow one another: a tick starts only
\* from the head of the loop, the head is reached only from a sleep that is
\* over, and the sleep of 60 seconds starts only when the save_backup call of
\* the tick ends.
C15_TicksDoNotOverlap ==
    [][/\ (pc'[Sched] = "save_fetching" /\ pc[Sched] # "save_fetching")
            => pc[Sched] = "tick"
       /\ (pc'[Sched] = "tick" /\ pc[Sched] # "tick")
            => pc[Sched] = "sleep" /\ now >= wakeAt
       /\ (pc'[Sched] = "sleep" /\ pc[Sched] # "sleep")
            => /\ pc[Sched] \in {"save_fetching", "save_registering"}
               /\ lastRet'.op = "save" /\ lastRet'.args = <<Sched>>
               /\ wakeAt' = now + BACKUP_INTERVAL]_vars

\* a tick wrote its file more than 60 seconds ago and is not over yet; the
\* scheduler has started no other
C15_Witness ==
    /\ pc[Sched] = "save_registering"
    /\ now - saving[Sched].id > BACKUP_INTERVAL
    /\ wakeAt = 0

\* the files load_existing_backups looks at: those with fewer than 20 files
\* of a greater timestamp beside them
Considered ==
    {i \in DOMAIN files :
        Cardinality({j \in DOMAIN files : j > i}) < RETENTION}

\* C16: load_existing_backups returns without raising, and the registry it
\* leaves holds, under its timestamp, every one of the 20 newest files that
\* has the expected shape and nothing else: a file that fails is skipped and
\* the others are still registered.
C16_LoadIsBestEffort ==
    lastRet.op = "load" =>
        /\ lastRet.status = "returned"
        /\ DOMAIN cache_snapshots = {i \in Considered : files[i].shape = "ok"}
        /\ \A i \in DOMAIN cache_snapshots :
              cache_snapshots[i] = [data |-> files[i].board, timestamp |-> i]

\* the directory held more than 20 files, one of the 20 newest failed, and
\* files older and newer than that one are registered
C16_Witness ==
    /\ lastRet.op = "load"
    /\ Cardinality(DOMAIN files) > RETENTION
    /\ \E b \in Considered :
          /\ files[b].shape # "ok"
          /\ \E i, j \in DOMAIN cache_snapshots : i < b /\ b < j

\* C17: with a registered snapshot selected, the team statistics the route
\* /teams shows are those of the entries of that snapshot.
C17_AggregatesUseSelection ==
    [][lastRet'.op = "teams" /\ SnapshotSelected =>
         lastRet'.val =
             calculate_team_leaderboard(List(cache_snapshots[selected_cache].data))]_vars

\* the pages 1..n of a request, one after the other
RECURSIVE PagesUpTo(_, _, _, _)
PagesUpTo(leaderboard, ascending, tribe, n) ==
    IF n = 0 THEN << >>
    ELSE PagesUpTo(leaderboard, ascending, tribe, n - 1)
            \o process_leaderboard(leaderboard, ascending, tribe, n).rows

\* C18: for the entries, order and tribe of a page request that was
\* answered, the pages 1..total_pages put one after the other are the
\* filtered and sorted entries, each once and in order; total_pages is the
\* least number of pages of 25 that hold them all (0 for none); the page after
\* the last is empty; and the answer given is the page asked for.
C18_PagesCoverSortedEntries ==
    lastRet.op = "page" /\ lastRet.status = "ok" =>
        LET ascending == lastRet.args[1]
            tribe == lastRet.args[2]
            page == lastRet.args[3]
            full == SortValues(FilterTribe(Normalize(ResolvedData.entries), tribe),
                               ascending)
            n == lastRet.val.total_pages
        IN /\ lastRet.val.total = Len(full)
           /\ n * RESULTS_PER_PAGE >= Len(full)
           /\ n > 0 => (n - 1) * RESULTS_PER_PAGE < Len(full)
           /\ Len(full) = 0 => n = 0
           /\ PagesUpTo(ResolvedData, ascending, tribe, n) = full
           /\ process_leaderboard(ResolvedData, ascending, tribe, n + 1).rows = << >>
           /\ page <= n =>
                 lastRet.val.rows =
                     [i \in 1 .. Len(lastRet.val.rows) |->
                         full[(page - 1) * RESULTS_PER_PAGE + i]]
           /\ page > n => lastRet.val.rows = << >>

\* the third and last page of more than 50 entries has just been returned,
\* with fewer than 25 rows
C18_Witness ==
    /\ lastRet.op = "page"
    /\ lastRet.status = "ok"
    /\ lastRet.val.total > 2 * RESULTS_PER_PAGE
    /\ lastRet.val.total_pages = 3
    /\ lastRet.args[3] = 3
    /\ Len(lastRet.val.rows) \in 1 .. (RESULTS_PER_PAGE - 1)

\* sum and number of the scores of a tribe
TribeSum(df, tribe) == SumScores(FilterTribe(df, tribe))
TribeCount(df, tribe) == Len(FilterTribe(df, tribe))

\* C19: the route /teams lists every tribe that has an entry once, and in
\* descending order of the mean of the highScore of its entries.
C19_TeamsOrderedByMean ==
    lastRet.op = "teams" =>
        LET df == cached_leaderboard.entries
            res == lastRet.val
            tribes == {df[i]["tribe"] : i \in 1 .. Len(df)}
        IN /\ Len(res) = Cardinality(tribes)
           /\ {res[g].tribe : g \in 1 .. Len(res)} = tribes
           /\ \A g, h \in 1 .. Len(res) :
                 g < h =>
                    TribeSum(df, res[g].tribe) * TribeCount(df, res[h].tribe)
                        >= TribeSum(df, res[h].tribe) * TribeCount(df, res[g].tribe)

\* C20: process_leaderboard does not raise on the time format; the rows it
\* returns are left as they are by another pass of the address renaming and
\* the time format, which does not raise either; and an entry whose
\* highScoreAchievedAt is missing or is not a time of the API comes out with
\* "N/A".
C20_NormalizeIdempotent ==
    lastRet.op = "page" =>
        /\ lastRet.status # "raised"
        /\ ~NormalizeRaises(lastRet.val.rows)
        /\ Normalize(lastRet.val.rows) = lastRet.val.rows
        /\ LET df == ResolvedData.entries
           IN \A i \in 1 .. Len(df) :
                 ("highScoreAchievedAt" \in DOMAIN df[i]
                    /\ df[i]["highScoreAchievedAt"].fmt # "iso")
                 => Normalize(df)[i]["highScoreAchievedAt"] = NotAvailable

\* C21: the vote-off list of a tribe holds, for every entry of the selected
\* source that is of the tribe and has a highScore below 100000, the pair of
\* its player id and its score, as often as such entries give that pair, and
\* nothing else; the pairs stand in ascending order of the score; the player
\* id is the last of the parts of the address between colons, or "Unknown"
\* for an address without a colon.
C21_VoteOffList ==
    lastRet.op = "vote_off" =>
        LET df == ResolvedData.entries
            tribe == lastRet.args[1]
            res == lastRet.val
            Q == {i \in 1 .. Len(df) :
                     df[i]["tribe"] = tribe /\ df[i]["highScore"] < LOW_SCORE_THRESHOLD}
            addr(i) == IF "playerAddress" \in DOMAIN df[i]
                       THEN df[i]["playerAddress"] ELSE df[i]["address"]
            pid(i) == LET parts == CHOOSE q \in AddressParts : Join(q) = addr(i)
                      IN IF Len(parts) = 1 THEN "Unknown" ELSE parts[Len(parts)]
            pair(i) == <<pid(i), df[i]["highScore"]>>
        IN /\ Len(res) = Cardinality(Q)
           /\ \A g, h \in 1 .. Len(res) : g < h => res[g][2] <= res[h][2]
           /\ \A i \in Q :
                 Cardinality({g \in 1 .. Len(res) : res[g] = pair(i)})
                     = Cardinality({j \in Q : pair(j) = pair(i)})

\* a list has just been returned that holds an id taken from behind the last
\* of several colons and an "Unknown", and leaves out an entry of the tribe
\* whose score is the threshold
C21_Witness ==
    /\ lastRet.op = "vote_off"
    /\ \E g \in 1 .. Len(lastRet.val) : lastRet.val[g] = <<"0xabc", 99999>>
    /\ \E g \in 1 .. Len(lastRet.val) : lastRet.val[g][1] = "Unknown"
    /\ \E i \in 1 .. Len(ResolvedData.entries) :
          /\ ResolvedData.entries[i]["tribe"] = lastRet.args[1]
          /\ ResolvedData.entries[i]["highScore"] = LOW_SCORE_THRESHOLD

\* C22: a fetch_leaderboard call on the live path goes to the network
\* exactly when at least 500 seconds have passed since last_updated: a call
\* answered from the cache is made before that, a call that starts a fetch at
\* or after it.
C22_RefreshAtTtl ==
    [][~SnapshotSelected =>
         /\ lastRet'.op = "get_cached" => now - last_updated < CACHE_EXPIRATION
         /\ \A t \in Threads :
               pc[t] = "idle" /\ pc'[t] = "get_fetching"
               => now - last_updated >= CACHE_EXPIRATION]_vars

\* the selection names an id that is not in the registry
Dangling ==
    selected_cache # LIVE /\ selected_cache \notin DOMAIN cache_snapshots

\* C23: delete_backup leaves the selection as it is; once the selection names
\* an id that is not in the registry, it keeps naming it and the id stays
\* out of the registry until a select_cache call, and meanwhile every
\* fetch_leaderboard call takes the path of the live cache: it goes to the
\* network or returns cached_leaderboard, never the entries of a snapshot.
C23_DeletedSelectionStaysLive ==
    [][/\ lastRet'.op = "delete" /\ lastRet' # lastRet
            => selected_cache' = selected_cache
       /\ Dangling =>
            /\ lastRet'.op # "select" => selected_cache' = selected_cache
            /\ lastRet'.op # "select" => Dangling'
            /\ lastRet' # lastRet => lastRet'.op # "get_snapshot"
            /\ lastRet'.op = "get_cached" /\ lastRet' # lastRet
                  => lastRet'.val = cached_leaderboard]_vars

====
